---- MODULE Spec2Model ----
(***************************************************************************)
(* A model of spotsync's matching engine: TrackMatcher (matcher.py) and    *)
(* PlaylistComparer (comparer.py).                                         *)
(*                                                                         *)
(* Text is a sequence of one-character strings.  An Optional value is a    *)
(* sequence of length at most one: None is << >>, a present value v is     *)
(* << v >>.  A float is an exact fraction << numerator, denominator >>     *)
(* with a positive denominator.                                            *)
(***************************************************************************)
EXTENDS Integers, Sequences, FiniteSets, TLC

VARIABLES
    local_tracks,         \* compare_playlists argument: sequence of Track
    spotify_tracks,       \* compare_playlists argument: sequence of track dicts
    threshold,            \* self.matcher.threshold
    pc,                   \* position in compare_playlists
    idx,                  \* number of local tracks the for loop has processed
    matched_pairs,        \* comparer.py:46
    local_only,           \* comparer.py:47
    spotify_only,         \* comparer.py:48
    matched_spotify_ids,  \* comparer.py:51
    spotify_results,      \* the pool handed to the latest match_track call
    match_result,         \* what the latest match_track call returned
    result,               \* the returned ComparisonResult (Optional)
    score_args,           \* the arguments of a direct _calculate_match_score call
    score_value,          \* what that call returned (Optional)
    first_result,         \* what an earlier compare_playlists call returned (Optional)
    spotify_results_list, \* find_best_matches argument: one result list per slot
    matches,              \* matcher.py:193
    error,                \* the exception a call raised (Optional)
    clean_text,           \* the argument of a direct _clean_string call (Optional text)
    clean_value,          \* what that call returned (Optional)
    file_path,            \* M3U8Parser.parse argument
    file_lines,           \* the lines of the file at file_path, None when there is no file
    self_tracks,          \* self.tracks, parser.py:22
    playlist_name,        \* self.playlist_name, parser.py:23
    parsed                \* what parse returned (Optional)

\* the state of a find_best_matches call
best_vars == << spotify_results_list, matches >>

\* the state of a direct _clean_string call
clean_vars == << clean_text, clean_value >>

\* the state of a parser and of the file it reads
parse_vars == << file_path, file_lines, self_tracks, playlist_name, parsed >>

vars == << local_tracks, spotify_tracks, threshold, pc, idx, matched_pairs,
           local_only, spotify_only, matched_spotify_ids, spotify_results,
           match_result, result, score_args, score_value, first_result, error,
           best_vars, clean_vars, parse_vars >>

-----------------------------------------------------------------------------
(* Optional values *)

None == << >>

Some(v) == << v >>

IsNone(o) == Len(o) = 0

Get(o) == o[1]

-----------------------------------------------------------------------------
(* Floats as exact fractions *)

Frac(n, d) == << n, d >>

FLe(a, b) == a[1] * b[2] <= b[1] * a[2]

FLt(a, b) == a[1] * b[2] < b[1] * a[2]

FEq(a, b) == a[1] * b[2] = b[1] * a[2]

FAdd(a, b) == << a[1] * b[2] + b[1] * a[2], a[2] * b[2] >>

FMul(a, b) == << a[1] * b[1], a[2] * b[2] >>

FMax(a, b) == IF FLt(a, b) THEN b ELSE a

FMin(a, b) == IF FLt(b, a) THEN b ELSE a

-----------------------------------------------------------------------------
(* Python str operations *)

UpperToLower ==
    [A |-> "a", B |-> "b", C |-> "c", D |-> "d", E |-> "e", F |-> "f",
     G |-> "g", H |-> "h", I |-> "i", J |-> "j", K |-> "k", L |-> "l",
     M |-> "m", N |-> "n", O |-> "o", P |-> "p", Q |-> "q", R |-> "r",
     S |-> "s", T |-> "t", U |-> "u", V |-> "v", W |-> "w", X |-> "x",
     Y |-> "y", Z |-> "z"]

LowerLetters == { UpperToLower[c] : c \in DOMAIN UpperToLower }

Digits == {"0", "1", "2", "3", "4", "5", "6", "7", "8", "9"}

\* the characters the regex class \w matches
WordChars == LowerLetters \cup DOMAIN UpperToLower \cup Digits \cup {"_"}

\* the characters the regex class \s matches and str.split() / str.strip() drop
Whitespace == {" ", "\t", "\n"}

LowerChar(c) == IF c \in DOMAIN UpperToLower THEN UpperToLower[c] ELSE c

\* str.lower()
Lower(s) == [i \in 1..Len(s) |-> LowerChar(s[i])]

\* the first index >= from at which s holds c, 0 when there is none
RECURSIVE IndexOf(_, _, _)
IndexOf(s, c, from) ==
    IF from > Len(s) THEN 0
    ELSE IF s[from] = c THEN from
    ELSE IndexOf(s, c, from + 1)

StartsWithAt(s, p, i) ==
    /\ i + Len(p) - 1 <= Len(s)
    /\ SubSeq(s, i, i + Len(p) - 1) = p

\* sub in s
Contains(s, sub) == \E i \in 1..(Len(s) - Len(sub) + 1) : StartsWithAt(s, sub, i)

RECURSIVE LStrip(_)
LStrip(s) ==
    IF s = << >> THEN << >>
    ELSE IF s[1] \in Whitespace THEN LStrip(Tail(s))
    ELSE s

RECURSIVE RStrip(_)
RStrip(s) ==
    IF s = << >> THEN << >>
    ELSE IF s[Len(s)] \in Whitespace THEN RStrip(SubSeq(s, 1, Len(s) - 1))
    ELSE s

\* str.strip()
Strip(s) == RStrip(LStrip(s))

\* str.split(sep) for a one-character separator: the pieces, empty ones kept
RECURSIVE SplitOn(_, _)
SplitOn(s, sep) ==
    LET p == IndexOf(s, sep, 1) IN
    IF p = 0 THEN << s >>
    ELSE << SubSeq(s, 1, p - 1) >> \o SplitOn(SubSeq(s, p + 1, Len(s)), sep)

\* str.split(): the maximal runs of non-whitespace characters
RECURSIVE Words(_)
Words(s) ==
    LET t == LStrip(s) IN
    IF t = << >> THEN << >>
    ELSE LET n == CHOOSE k \in 1..Len(t) :
                      /\ \A j \in 1..k : t[j] \notin Whitespace
                      /\ (k = Len(t) \/ t[k + 1] \in Whitespace)
         IN << SubSeq(t, 1, n) >> \o Words(SubSeq(t, n + 1, Len(t)))

\* sep.join(parts)
RECURSIVE Join(_, _)
Join(parts, sep) ==
    IF parts = << >> THEN << >>
    ELSE IF Len(parts) = 1 THEN parts[1]
    ELSE parts[1] \o sep \o Join(Tail(parts), sep)

Range(s) == { s[i] : i \in 1..Len(s) }

-----------------------------------------------------------------------------
(* TrackMatcher._clean_string, matcher.py:129-177 *)

Markers ==
    { <<"r","e","m","i","x">>, <<"m","i","x">>, <<"e","d","i","t">>,
      <<"v","e","r","s","i","o","n">>, <<"r","e","w","o","r","k">> }

HasMarker(content) == \E m \in Markers : Contains(content, m)

\* a mutant of FindMarked: no span is held aside for its marker
FindMarkedNothing(text, open, close, from) == << >>

\* re.findall(open ([^close]* marker [^close]*) close, text): the contents of
\* the spans that go from an opener to the first closer after it and hold a
\* marker, scanning left to right from index from
RECURSIVE FindMarked(_, _, _, _)
FindMarked(text, open, close, from) ==
    LET p == IndexOf(text, open, from)
        q == IF p = 0 THEN 0 ELSE IndexOf(text, close, p + 1)
    IN  IF p = 0 \/ q = 0 THEN << >>
        ELSE IF HasMarker(SubSeq(text, p + 1, q - 1))
             THEN << SubSeq(text, p + 1, q - 1) >> \o FindMarked(text, open, close, q + 1)
             ELSE FindMarked(text, open, close, p + 1)

\* \s*([^)]+) matched against rest, the text up to the closing parenthesis:
\* the group is rest without its leading whitespace, or the last whitespace
\* character when rest is whitespace only
AfterWs(rest) ==
    IF rest = << >> THEN None
    ELSE IF LStrip(rest) # << >> THEN Some(LStrip(rest))
    ELSE Some(<< rest[Len(rest)] >>)

\* \.?\s*([^)]+) matched against rest: the optional dot is taken when the
\* remainder still matches
AfterDot(rest) ==
    IF rest # << >> /\ rest[1] = "." /\ ~IsNone(AfterWs(Tail(rest)))
    THEN AfterWs(Tail(rest))
    ELSE AfterWs(rest)

\* the group of \((?:feat\.?|featuring|ft\.?)\s*([^)]+)\) matched at the
\* opening parenthesis p whose first closing parenthesis is q
FeatGroup(text, p, q) ==
    LET feat      == <<"f","e","a","t">>
        featuring == <<"f","e","a","t","u","r","i","n","g">>
        ft        == <<"f","t">>
        rest(k)   == SubSeq(text, p + 1 + Len(k), q - 1)
        viaFeat      == IF StartsWithAt(text, feat, p + 1) /\ p + Len(feat) < q
                        THEN AfterDot(rest(feat)) ELSE None
        viaFeaturing == IF StartsWithAt(text, featuring, p + 1) /\ p + Len(featuring) < q
                        THEN AfterWs(rest(featuring)) ELSE None
        viaFt        == IF StartsWithAt(text, ft, p + 1) /\ p + Len(ft) < q
                        THEN AfterDot(rest(ft)) ELSE None
    IN  IF ~IsNone(viaFeat) THEN viaFeat
        ELSE IF ~IsNone(viaFeaturing) THEN viaFeaturing
        ELSE viaFt

\* re.findall of the featuring pattern, matcher.py:156
RECURSIVE FindFeat(_, _)
FindFeat(text, from) ==
    LET p == IndexOf(text, "(", from)
        q == IF p = 0 THEN 0 ELSE IndexOf(text, ")", p + 1)
    IN  IF p = 0 \/ q = 0 THEN << >>
        ELSE IF ~IsNone(FeatGroup(text, p, q))
             THEN << Get(FeatGroup(text, p, q)) >> \o FindFeat(text, q + 1)
             ELSE FindFeat(text, p + 1)

\* matcher.py:160: some non-blank name of the featuring group occurs in text
FeatAlreadyInText(feat, text) ==
    LET names == SplitOn(feat, "&") \o SplitOn(feat, ",") IN
    \E i \in 1..Len(names) :
        /\ Strip(names[i]) # << >>
        /\ Contains(Lower(text), Lower(Strip(names[i])))

\* a mutant of KeptFeats: every featuring group is appended
KeptFeatsAll(feats, text) == feats

\* matcher.py:158-161
RECURSIVE KeptFeats(_, _)
KeptFeats(feats, text) ==
    IF feats = << >> THEN << >>
    ELSE (IF FeatAlreadyInText(feats[1], text) THEN << >> ELSE << feats[1] >>)
         \o KeptFeats(Tail(feats), text)

\* re.sub(open [^close]* close, '', text) from index from on
RECURSIVE RemoveSpans(_, _, _, _)
RemoveSpans(text, open, close, from) ==
    LET p == IndexOf(text, open, from)
        q == IF p = 0 THEN 0 ELSE IndexOf(text, close, p + 1)
    IN  IF p = 0 \/ q = 0 THEN SubSeq(text, from, Len(text))
        ELSE SubSeq(text, from, p - 1) \o RemoveSpans(text, open, close, q + 1)

\* a mutant of ReplaceSpecial: special characters are kept
ReplaceSpecialKeeping(text) == text

\* re.sub(r'[^\w\s]', ' ', text)
ReplaceSpecial(text) ==
    [i \in 1..Len(text) |->
        IF text[i] \in WordChars \cup Whitespace THEN text[i] ELSE " "]

clean_string(text) ==
    IF IsNone(text) \/ Get(text) = << >> THEN << >>
    ELSE
    LET lowered == Lower(Get(text))
        important_content ==
            FindMarked(lowered, "[", "]", 1)
            \o FindMarked(lowered, "(", ")", 1)
            \o KeptFeats(FindFeat(lowered, 1), lowered)
        stripped == RemoveSpans(RemoveSpans(lowered, "(", ")", 1), "[", "]", 1)
        readded == IF important_content # << >>
                   THEN stripped \o <<" ">> \o Join(important_content, <<" ">>)
                   ELSE stripped
    IN  Strip(Join(Words(ReplaceSpecial(readded)), <<" ">>))

-----------------------------------------------------------------------------
(* Levenshtein.ratio, imported at matcher.py:6 *)

Max(a, b) == IF a >= b THEN a ELSE b

\* one row of the longest-common-subsequence table: cur holds the entries for
\* the first Len(cur) - 1 characters of b
RECURSIVE LcsRow(_, _, _, _)
LcsRow(prev, ch, b, cur) ==
    IF Len(cur) = Len(b) + 1 THEN cur
    ELSE LET j == Len(cur) IN
         LcsRow(prev, ch, b,
                Append(cur, IF ch = b[j] THEN prev[j] + 1
                            ELSE Max(prev[j + 1], cur[j])))

RECURSIVE LcsRows(_, _, _, _)
LcsRows(a, b, i, prev) ==
    IF i > Len(a) THEN prev
    ELSE LcsRows(a, b, i + 1, LcsRow(prev, a[i], b, << 0 >>))

LcsLen(a, b) == LcsRows(a, b, 1, [j \in 1..(Len(b) + 1) |-> 0])[Len(b) + 1]

\* the edit distance in which a substitution costs an insertion and a deletion
edit_distance(a, b) == Len(a) + Len(b) - 2 * LcsLen(a, b)

ratio(a, b) ==
    IF Len(a) + Len(b) = 0 THEN Frac(1, 1)
    ELSE Frac(Len(a) + Len(b) - edit_distance(a, b), Len(a) + Len(b))

-----------------------------------------------------------------------------
(* TrackMatcher._calculate_match_score, matcher.py:86-127 *)

\* a mutant of boosted_artist_score: the similarity without the two boosts
unboosted_artist_score(local_artist, clean_spotify_artist) ==
    ratio(local_artist, clean_spotify_artist)

\* a mutant of boosted_artist_score: a boost assigns its value instead of
\* taking the maximum
assigned_artist_score(local_artist, clean_spotify_artist) ==
    LET local_words == Range(Words(local_artist))
        spotify_words == Range(Words(clean_spotify_artist))
    IN  IF local_words = spotify_words /\ Cardinality(local_words) > 1
        THEN Frac(95, 100)
        ELSE IF Contains(Lower(clean_spotify_artist), Lower(local_artist))
        THEN Frac(9, 10)
        ELSE ratio(local_artist, clean_spotify_artist)

\* matcher.py:101-111: the similarity of the two artists with its two boosts
boosted_artist_score(local_artist, clean_spotify_artist) ==
    LET raw == ratio(local_artist, clean_spotify_artist)
        contained == IF Contains(Lower(clean_spotify_artist), Lower(local_artist))
                     THEN FMax(raw, Frac(9, 10)) ELSE raw
        local_words == Range(Words(local_artist))
        spotify_words == Range(Words(clean_spotify_artist))
    IN  IF local_words = spotify_words /\ Cardinality(local_words) > 1
        THEN FMax(contained, Frac(95, 100)) ELSE contained

\* a mutant of weighted: the normal weighting gives the title 0.4 as well
weighted_title_low(title_score, artist_score) ==
    IF FLt(artist_score, Frac(6, 10))
    THEN FAdd(FMul(title_score, Frac(4, 10)), FMul(artist_score, Frac(6, 10)))
    ELSE FAdd(FMul(title_score, Frac(4, 10)), FMul(artist_score, Frac(4, 10)))

\* a mutant of weighted: the normal weighting whatever the artist score
weighted_unpenalized(title_score, artist_score) ==
    FAdd(FMul(title_score, Frac(6, 10)), FMul(artist_score, Frac(4, 10)))

\* matcher.py:113-118
weighted(title_score, artist_score) ==
    IF FLt(artist_score, Frac(6, 10))
    THEN FAdd(FMul(title_score, Frac(4, 10)), FMul(artist_score, Frac(6, 10)))
    ELSE FAdd(FMul(title_score, Frac(6, 10)), FMul(artist_score, Frac(4, 10)))

\* a mutant of exact_title_bonus: the bonus is added without the cap
exact_title_bonus_uncapped(total_score) == FAdd(total_score, Frac(1, 10))

\* matcher.py:125
exact_title_bonus(total_score) == FMin(Frac(1, 1), FAdd(total_score, Frac(1, 10)))

\* a mutant of calculate_match_score: the artist score is used whenever the
\* local artist is present, an empty candidate artist included
calculate_match_score_local_only(local_title, local_artist, spotify_title, spotify_artist) ==
    LET clean_spotify_title == clean_string(Some(spotify_title))
        title_score == ratio(local_title, clean_spotify_title)
        total_score ==
            IF local_artist # << >>
            THEN weighted(title_score,
                          boosted_artist_score(local_artist,
                                               clean_string(Some(spotify_artist))))
            ELSE title_score
    IN  IF local_title = clean_spotify_title
        THEN exact_title_bonus(total_score)
        ELSE total_score

\* matcher.py:92-127
calculate_match_score(local_title, local_artist, spotify_title, spotify_artist) ==
    LET clean_spotify_title == clean_string(Some(spotify_title))
        clean_spotify_artist == clean_string(Some(spotify_artist))
        title_score == ratio(local_title, clean_spotify_title)
        total_score ==
            IF local_artist # << >> /\ clean_spotify_artist # << >>
            THEN weighted(title_score,
                          boosted_artist_score(local_artist, clean_spotify_artist))
            ELSE title_score
    IN  IF local_title = clean_spotify_title
        THEN exact_title_bonus(total_score)
        ELSE total_score

-----------------------------------------------------------------------------
(* The inputs the model draws from *)

MaxLocal == 2

MaxSpotify == 2

\* Track(title, artist), parser.py:9-15
Track(title, artist) == [title |-> title, artist |-> artist]

LocalPool ==
    { Track(<<"A","b">>, Some(<<"X">>)),
      Track(<<"A","c">>, Some(<<"X">>)),
      Track(<<"Z","z">>, None) }

\* a track dict of get_playlist_tracks_detailed, spotify_api.py:193-199; the id
\* "" stands for a missing or empty identifier
SpotifyTrack(id, name, artists) == [id |-> id, name |-> name, artists |-> artists]

SpotifyIds == {"", "1", "2"}

SpotifyPool ==
    { SpotifyTrack(id, c[1], c[2]) :
        id \in SpotifyIds,
        c \in { << <<"A","b">>, <<"X">> >>,
                << <<"Z","z">>, << >> >>,
                << <<"A","b">>, <<"X",","," ","Y">> >> } }

Thresholds == { Frac(0, 1), Frac(83, 100), Frac(1, 1) }

\* a local track whose two artists are those of a track of SpotifyPool in the
\* other order; find_best_matches is called with it too
ReorderedLocals == { Track(<<"A","b">>, Some(<<"Y"," ","/"," ","X">>)) }

\* a local track whose artist name carries a marker span
MarkedLocals == { Track(<<"A","b">>, Some(<<"X"," ","(","m","i","x",")">>)) }

\* a track dict whose first artist is that of MarkedLocals, beside a second
\* artist of ten letters
MarkedTracks ==
    { SpotifyTrack("4", <<"A","b">>,
                   <<"X"," ","(","m","i","x",")",","," ",
                     "Y","y","y","y","y","y","y","y","y","y">>) }

AllLocals == LocalPool \cup ReorderedLocals \cup MarkedLocals

SeqsUpTo(S, n) == UNION { [1..k -> S] : k \in 0..n }


\* comparer.py:66 and matcher.py:56-57: the artist string match_track scores
joined_artists(artists) ==
    LET parts == SplitOn(artists, ",") IN
    Join([i \in 1..Len(parts) |-> Strip(parts[i])], <<" ">>)

\* _clean_string and _calculate_match_score are pure, and TLC evaluates a
\* constant definition once: CleanTable and ScoreTable hold their values on
\* every text of the pools, and clean_local and track_score look them up
CleanTable ==
    [text \in { Some(l.title) : l \in AllLocals } \cup { l.artist : l \in AllLocals }
        |-> clean_string(text)]

\* matcher.py:50-51: _clean_string of the local title or artist
clean_local(text) == CleanTable[text]

ScoreArgs ==
    { << clean_local(Some(l.title)),
         IF IsNone(l.artist) THEN << >> ELSE clean_local(l.artist),
         t.name, joined_artists(t.artists) >> :
            l \in AllLocals, t \in SpotifyPool \cup MarkedTracks }

ScoreTable == [a \in ScoreArgs |-> calculate_match_score(a[1], a[2], a[3], a[4])]

-----------------------------------------------------------------------------
(* TrackMatcher.match_track, matcher.py:31-84 *)

\* matcher.py:55-67: the score of one search result against the cleaned local
\* title and artist
track_score(clean_title, clean_artist, track) ==
    ScoreTable[<< clean_title, clean_artist, track.name, Join(track.artists, <<" ">>) >>]

\* a mutant of is_better: a tie replaces the current best
is_better_or_equal(score, best_score) == FLe(best_score, score)

\* matcher.py:69
is_better(score, best_score) == FLt(best_score, score)

\* a mutant of consider: a result without an identifier is scored like any other
consider_any_id(best, track, score, local_title, local_artist) ==
    IF is_better(score, best.best_score)
    THEN [best_score |-> score,
          best_match |-> Some([spotify_id |-> track.id,
                               confidence |-> score,
                               matched_title |-> track.name,
                               matched_artist |-> Join(track.artists, <<" ">>),
                               original_title |-> local_title,
                               original_artist |-> local_artist])]
    ELSE best

\* matcher.py:58-78: what one search result with its score does to best_match
\* (an Optional MatchResult) and best_score
consider(best, track, score, local_title, local_artist) ==
    IF track.id = "" THEN best
    ELSE IF is_better(score, best.best_score)
    THEN [best_score |-> score,
          best_match |-> Some([spotify_id |-> track.id,
                               confidence |-> score,
                               matched_title |-> track.name,
                               matched_artist |-> Join(track.artists, <<" ">>),
                               original_title |-> local_title,
                               original_artist |-> local_artist])]
    ELSE best

\* matcher.py:53-78: the loop over spotify_results from position k on
RECURSIVE scan_results(_, _, _, _, _, _, _)
scan_results(local_title, local_artist, clean_title, clean_artist, results, k, best) ==
    IF k > Len(results) THEN best.best_match
    ELSE scan_results(local_title, local_artist, clean_title, clean_artist, results, k + 1,
                      consider(best, results[k],
                               track_score(clean_title, clean_artist, results[k]),
                               local_title, local_artist))

\* a mutant of meets_threshold: the best candidate is returned whatever it scores
meets_threshold_ungated(best_match, thr) == ~IsNone(best_match)

\* a mutant of meets_threshold: a score equal to the threshold is rejected
meets_threshold_strict(best_match, thr) ==
    ~IsNone(best_match) /\ FLt(thr, Get(best_match).confidence)

\* matcher.py:80-84
meets_threshold(best_match, thr) ==
    ~IsNone(best_match) /\ FLe(thr, Get(best_match).confidence)

\* matcher.py:80-84
gate(best_match, thr) == IF meets_threshold(best_match, thr) THEN best_match ELSE None

\* local_artist is Optional text; the result is an Optional MatchResult
match_track(thr, local_title, local_artist, results) ==
    IF results = << >> THEN None
    ELSE gate(scan_results(local_title, local_artist,
                           clean_local(Some(local_title)),
                           IF ~IsNone(local_artist) /\ Get(local_artist) # << >>
                           THEN clean_local(local_artist) ELSE << >>,
                           results, 1,
                           [best_score |-> Frac(0, 1), best_match |-> None]),
              thr)

-----------------------------------------------------------------------------
(* PlaylistComparer.compare_playlists, comparer.py:31-110 *)

\* comparer.py:63-67
track_result(spotify_track) ==
    LET parts == SplitOn(spotify_track.artists, ",") IN
    [id |-> spotify_track.id,
     name |-> spotify_track.name,
     artists |-> [i \in 1..Len(parts) |-> Strip(parts[i])]]

\* a mutant of live_pool: matched tracks stay in the pool
live_pool_unfiltered(tracks, matched_ids) ==
    [i \in 1..Len(tracks) |-> track_result(tracks[i])]

\* comparer.py:56-68: the tracks not matched yet, converted
RECURSIVE live_pool(_, _)
live_pool(tracks, matched_ids) ==
    IF tracks = << >> THEN << >>
    ELSE (IF tracks[1].id \in matched_ids THEN << >>
          ELSE << track_result(tracks[1]) >>)
         \o live_pool(Tail(tracks), matched_ids)

\* comparer.py:79-83: the first track of spotify_tracks with the identifier
RECURSIVE find_by_id(_, _)
find_by_id(tracks, id) ==
    IF tracks = << >> THEN None
    ELSE IF tracks[1].id = id THEN Some(tracks[1])
    ELSE find_by_id(Tail(tracks), id)

\* a mutant of unmatched: every track is reported as Spotify-only
unmatched_all(tracks, matched_ids) == tracks

\* comparer.py:94-96
RECURSIVE unmatched(_, _)
unmatched(tracks, matched_ids) ==
    IF tracks = << >> THEN << >>
    ELSE (IF tracks[1].id \notin matched_ids THEN << tracks[1] >> ELSE << >>)
         \o unmatched(Tail(tracks), matched_ids)

\* a mutant of percentage: the share of the local tracks alone
percentage_of_local(n_matched, n_local, n_spotify_only) ==
    IF n_local > 0 THEN Frac(n_matched * 100, n_local) ELSE Frac(0, 1)

\* comparer.py:100-101
percentage(n_matched, n_local, n_spotify_only) ==
    IF n_local + n_spotify_only > 0
    THEN Frac(n_matched * 100, n_local + n_spotify_only)
    ELSE Frac(0, 1)

\* no find_best_matches call is under way and none has raised
NoBestCall ==
    /\ spotify_results_list = << >>
    /\ matches = << >>
    /\ error = None

\* no direct _clean_string call is under way
NoCleanCall ==
    /\ clean_text = None
    /\ clean_value = None

\* M3U8Parser.__init__, parser.py:21-23, and no file
NoParseCall ==
    /\ file_path = << >>
    /\ file_lines = None
    /\ self_tracks = << >>
    /\ playlist_name = None
    /\ parsed = None

Init ==
    /\ local_tracks \in SeqsUpTo(LocalPool, MaxLocal)
    /\ spotify_tracks \in SeqsUpTo(SpotifyPool, MaxSpotify)
    /\ threshold \in Thresholds
    /\ pc = "loop"
    /\ idx = 0
    /\ matched_pairs = << >>
    /\ local_only = << >>
    /\ spotify_only = << >>
    /\ matched_spotify_ids = {}
    /\ spotify_results = << >>
    /\ match_result = None
    /\ result = None
    /\ score_args = None
    /\ score_value = None
    /\ first_result = None
    /\ NoBestCall
    /\ NoCleanCall
    /\ NoParseCall

\* a mutant of record_outcome: a track without a match is dropped
record_outcome_dropping(local_track, found, tracks, acc) ==
    IF IsNone(found) THEN acc
    ELSE [matched_pairs |->
              Append(acc.matched_pairs,
                     << local_track, Get(find_by_id(tracks, Get(found).spotify_id)) >>),
          matched_spotify_ids |-> acc.matched_spotify_ids \cup { Get(found).spotify_id },
          local_only |-> acc.local_only]

\* comparer.py:77-91: what one local track adds to the accumulators, given the
\* Optional MatchResult found for it
record_outcome(local_track, found, tracks, acc) ==
    LET matched_spotify_track ==
            IF IsNone(found) THEN None ELSE find_by_id(tracks, Get(found).spotify_id)
    IN  IF ~IsNone(found) /\ ~IsNone(matched_spotify_track)
        THEN [matched_pairs |->
                  Append(acc.matched_pairs, << local_track, Get(matched_spotify_track) >>),
              matched_spotify_ids |->
                  acc.matched_spotify_ids \cup { Get(found).spotify_id },
              local_only |-> acc.local_only]
        ELSE [matched_pairs |-> acc.matched_pairs,
              matched_spotify_ids |-> acc.matched_spotify_ids,
              local_only |-> Append(acc.local_only, local_track)]

\* comparer.py:86-91: the accumulators after one local track
store(acc) ==
    /\ matched_pairs' = acc.matched_pairs
    /\ matched_spotify_ids' = acc.matched_spotify_ids
    /\ local_only' = acc.local_only

\* comparer.py:71-91: the local track is matched against the pool and the
\* outcome is recorded
match_and_record(local_track, pool, found) ==
    /\ spotify_results' = pool
    /\ match_result' = found
    /\ store(record_outcome(local_track, found, spotify_tracks,
                            [matched_pairs |-> matched_pairs,
                             matched_spotify_ids |-> matched_spotify_ids,
                             local_only |-> local_only]))

\* comparer.py:54-91: one iteration of the loop over local_tracks
MatchLocalTrack ==
    /\ pc = "loop"
    /\ idx < Len(local_tracks)
    /\ LET pool == live_pool(spotify_tracks, matched_spotify_ids) IN
       match_and_record(local_tracks[idx + 1], pool,
                        match_track(threshold, local_tracks[idx + 1].title,
                                    local_tracks[idx + 1].artist, pool))
    /\ idx' = idx + 1
    /\ UNCHANGED << local_tracks, spotify_tracks, threshold, pc, spotify_only, result,
                    score_args, score_value, first_result, error,
                    best_vars, clean_vars, parse_vars >>

\* comparer.py:93-110: after the loop
Return ==
    /\ pc = "loop"
    /\ idx = Len(local_tracks)
    /\ LET only == unmatched(spotify_tracks, matched_spotify_ids) IN
       /\ spotify_only' = only
       /\ result' = Some([local_only |-> local_only,
                          spotify_only |-> only,
                          matched |-> matched_pairs,
                          total_local |-> Len(local_tracks),
                          total_spotify |-> Len(spotify_tracks),
                          match_percentage |->
                              percentage(Len(matched_pairs), Len(local_tracks), Len(only))])
    /\ pc' = "done"
    /\ UNCHANGED << local_tracks, spotify_tracks, threshold, idx, matched_pairs,
                    local_only, matched_spotify_ids, spotify_results, match_result,
                    score_args, score_value, first_result, error,
                    best_vars, clean_vars, parse_vars >>

Next == MatchLocalTrack \/ Return

Spec == Init /\ [][Next]_vars

-----------------------------------------------------------------------------
(* A second compare_playlists call on the same comparer and the same two     *)
(* lists, comparer.py:31-110                                                 *)

\* a mutant of fresh_matched_ids: the identifiers the earlier call consumed
\* are still there
kept_matched_ids == matched_spotify_ids

\* comparer.py:51
fresh_matched_ids == {}

\* comparer.py:45-51: the call that returned is remembered and the next call
\* initialises its own accumulators
CompareAgain ==
    /\ pc = "done"
    /\ IsNone(first_result)
    /\ first_result' = result
    /\ result' = None
    /\ pc' = "loop"
    /\ idx' = 0
    /\ matched_pairs' = << >>
    /\ local_only' = << >>
    /\ spotify_only' = << >>
    /\ matched_spotify_ids' = fresh_matched_ids
    /\ spotify_results' = << >>
    /\ match_result' = None
    /\ UNCHANGED << local_tracks, spotify_tracks, threshold, score_args, score_value,
                    error, best_vars, clean_vars, parse_vars >>

NextRepeat == MatchLocalTrack \/ Return \/ CompareAgain

SpecRepeat == Init /\ [][NextRepeat]_vars

-----------------------------------------------------------------------------
(* TrackMatcher.find_best_matches, matcher.py:179-198 *)

\* search results as match_track takes them: artists is the list of the
\* artists' names
ResultLists ==
    LET r0 == SpotifyTrack("", <<"A","b">>, << <<"X">> >>)
        r1 == SpotifyTrack("1", <<"A","b">>, << <<"X">> >>)
        r2 == SpotifyTrack("2", <<"A","b">>, << <<"X">>, <<"Y">> >>)
        r3 == SpotifyTrack("3", <<"Z","z">>, << >>)
        r4 == SpotifyTrack("4", <<"A","b">>,
                           << <<"X"," ","(","m","i","x",")">>,
                              <<"Y","y","y","y","y","y","y","y","y","y">> >>)
    IN  { << >>, << r1 >>, << r2 >>, << r0, r3 >>, << r2, r1 >>, << r4 >> }

\* the thresholds find_best_matches is called at
BestThresholds == Thresholds \cup { Frac(8, 10) }

InitBest ==
    /\ local_tracks \in SeqsUpTo(AllLocals, MaxLocal)
    /\ spotify_results_list \in SeqsUpTo(ResultLists, MaxLocal)
    /\ threshold \in BestThresholds
    /\ pc = "best"
    /\ idx = 0
    /\ matches = << >>
    /\ error = None
    /\ spotify_tracks = << >>
    /\ matched_pairs = << >>
    /\ local_only = << >>
    /\ spotify_only = << >>
    /\ matched_spotify_ids = {}
    /\ spotify_results = << >>
    /\ match_result = None
    /\ result = None
    /\ score_args = None
    /\ score_value = None
    /\ first_result = None
    /\ NoCleanCall
    /\ NoParseCall

\* a mutant of lengths_differ: only a shortage of result lists is reported
lengths_differ_one_sided(tracks, results_list) == Len(tracks) > Len(results_list)

\* matcher.py:190
lengths_differ(tracks, results_list) == Len(tracks) # Len(results_list)

\* matcher.py:191
LengthMismatch ==
    [type |-> "ValueError",
     message |-> "Number of local tracks must match number of result lists"]

\* matcher.py:190-191
RaiseLengthMismatch ==
    /\ pc = "best"
    /\ lengths_differ(local_tracks, spotify_results_list)
    /\ error' = Some(LengthMismatch)
    /\ pc' = "raised"
    /\ UNCHANGED << local_tracks, spotify_tracks, threshold, idx, matched_pairs,
                    local_only, spotify_only, matched_spotify_ids, spotify_results,
                    match_result, result, score_args, score_value, first_result,
                    best_vars, clean_vars, parse_vars >>

\* matcher.py:194: the number of pairs zip yields
zip_len(tracks, results_list) ==
    IF Len(tracks) < Len(results_list) THEN Len(tracks) ELSE Len(results_list)

\* a mutant of slot_results: every slot is matched against the first list
slot_results_first(results_list, i) == results_list[1]

\* matcher.py:194: the result list zip pairs with the i-th local track
slot_results(results_list, i) == results_list[i]

\* matcher.py:195-196
append_match(results, found) ==
    /\ spotify_results' = results
    /\ match_result' = found
    /\ matches' = Append(matches, found)

\* matcher.py:194-196: one iteration of the loop over the zipped lists
MatchSlot ==
    /\ pc = "best"
    /\ ~lengths_differ(local_tracks, spotify_results_list)
    /\ idx < zip_len(local_tracks, spotify_results_list)
    /\ append_match(slot_results(spotify_results_list, idx + 1),
                    match_track(threshold, local_tracks[idx + 1].title,
                                local_tracks[idx + 1].artist,
                                slot_results(spotify_results_list, idx + 1)))
    /\ idx' = idx + 1
    /\ UNCHANGED << local_tracks, spotify_tracks, threshold, pc, matched_pairs,
                    local_only, spotify_only, matched_spotify_ids, result,
                    score_args, score_value, first_result, error,
                    spotify_results_list, clean_vars, parse_vars >>

\* matcher.py:198
ReturnMatches ==
    /\ pc = "best"
    /\ ~lengths_differ(local_tracks, spotify_results_list)
    /\ idx = zip_len(local_tracks, spotify_results_list)
    /\ pc' = "best_done"
    /\ UNCHANGED << local_tracks, spotify_tracks, threshold, idx, matched_pairs,
                    local_only, spotify_only, matched_spotify_ids, spotify_results,
                    match_result, result, score_args, score_value, first_result,
                    error, best_vars, clean_vars, parse_vars >>

NextBest == RaiseLengthMismatch \/ MatchSlot \/ ReturnMatches

SpecBest == InitBest /\ [][NextBest]_vars

-----------------------------------------------------------------------------
(* A direct call of TrackMatcher._clean_string, matcher.py:129-177 *)

MaxSegments == 2

\* text outside spans, stray parentheses and brackets among it
PlainSegments ==
    { <<"S">>, <<" ">>, <<"s","!">>, <<"(">>, <<")">>, <<"[">>, <<"]">>,
      <<"_","1","\t">> }

\* what the model puts between parentheses
ParenContents ==
    { <<"y">>, <<"m","i","x">>, <<"Y"," ","R","e","m","i","x">>,
      <<"f","e","a","t","."," ","y">>, <<"f","t"," ","y">>,
      <<"f","e","a","t","u","r","i","n","g"," ","y">>,
      <<"f","e","a","t","."," ","s">>,
      <<"f","e","a","t","."," ","y"," ","&"," ","s">>, <<"f","e","a","t","."," ">> }

\* what the model puts between brackets
BracketContents ==
    { <<"y">>, <<"m","i","x">>, <<"m","i","x"," ","(","y",")">>,
      <<"m","i","x"," ","(","f","e","a","t","."," ","y",")">>,
      <<"(","f","e","a","t","."," ","y",")">> }

Segments ==
    PlainSegments
    \cup { <<"(">> \o c \o <<")">> : c \in ParenContents }
    \cup { <<"[">> \o c \o <<"]">> : c \in BracketContents }

RECURSIVE Concat(_)
Concat(parts) == IF parts = << >> THEN << >> ELSE parts[1] \o Concat(Tail(parts))

InitClean ==
    /\ clean_text \in
          { None } \cup { Some(Concat(parts)) : parts \in SeqsUpTo(Segments, MaxSegments) }
    /\ clean_value = None
    /\ pc = "clean"
    /\ local_tracks = << >>
    /\ spotify_tracks = << >>
    /\ threshold = Frac(0, 1)
    /\ idx = 0
    /\ matched_pairs = << >>
    /\ local_only = << >>
    /\ spotify_only = << >>
    /\ matched_spotify_ids = {}
    /\ spotify_results = << >>
    /\ match_result = None
    /\ result = None
    /\ score_args = None
    /\ score_value = None
    /\ first_result = None
    /\ NoBestCall
    /\ NoParseCall

CleanString ==
    /\ pc = "clean"
    /\ clean_value' = Some(clean_string(clean_text))
    /\ pc' = "cleaned"
    /\ UNCHANGED << local_tracks, spotify_tracks, threshold, idx, matched_pairs,
                    local_only, spotify_only, matched_spotify_ids, spotify_results,
                    match_result, result, score_args, score_value, first_result,
                    error, best_vars, clean_text, parse_vars >>

NextClean == CleanString

SpecClean == InitClean /\ [][NextClean]_vars

-----------------------------------------------------------------------------
(* M3U8Parser.parse on a fresh parser, parser.py:18-137 *)

\* the last index at which s holds c, 0 when there is none
RECURSIVE LastIndexOf(_, _, _)
LastIndexOf(s, c, from) ==
    IF from < 1 THEN 0
    ELSE IF s[from] = c THEN from
    ELSE LastIndexOf(s, c, from - 1)

\* the first index at which sub starts in s, 0 when there is none
RECURSIVE FindSub(_, _, _)
FindSub(s, sub, from) ==
    IF from + Len(sub) - 1 > Len(s) THEN 0
    ELSE IF StartsWithAt(s, sub, from) THEN from
    ELSE FindSub(s, sub, from + 1)

\* pathlib's Path(path).name for a path that does not end in a slash
path_name(path) == SubSeq(path, LastIndexOf(path, "/", Len(path)) + 1, Len(path))

\* the position of the dot that starts the suffix of a file name, 0 when the
\* name has no suffix: a leading or a trailing dot starts none
suffix_dot(name) ==
    LET i == LastIndexOf(name, ".", Len(name)) IN
    IF i > 1 /\ i < Len(name) THEN i ELSE 0

\* Path(path).suffix
suffix(path) ==
    LET name == path_name(path) IN
    IF suffix_dot(name) = 0 THEN << >> ELSE SubSeq(name, suffix_dot(name), Len(name))

\* Path(path).stem
stem(path) ==
    LET name == path_name(path) IN
    IF suffix_dot(name) = 0 THEN name ELSE SubSeq(name, 1, suffix_dot(name) - 1)

\* Track(title, artist, duration, file_path), parser.py:9-15
ParsedTrack(title, artist, duration, path) ==
    [title |-> title, artist |-> artist, duration |-> duration, file_path |-> path]

\* the value of a run of digits
RECURSIVE digits_value(_, _)
digits_value(text, acc) ==
    IF text = << >> THEN acc
    ELSE digits_value(Tail(text),
                      10 * acc + (CHOOSE d \in 0..9 : ToString(d) = text[1]))

\* parser.py:97-100, int(float(text)) or None on ValueError, for a text that
\* is a run of digits within whitespace or holds no digit at all
parse_duration(text) ==
    IF Strip(text) # << >> /\ Range(Strip(text)) \subseteq Digits
    THEN Some(digits_value(Strip(text), 0))
    ELSE None

\* parser.py:104-110 and 129-135: "Artist - Title", split at the first " - "
artist_and_title(text) ==
    LET at == FindSub(text, <<" ","-"," ">>, 1) IN
    IF at = 0 THEN [artist |-> None, title |-> text]
    ELSE [artist |-> Some(Strip(SubSeq(text, 1, at - 1))),
          title |-> Strip(SubSeq(text, at + 3, Len(text)))]

\* parser.py:83-112
parse_extinf(line) ==
    LET info == Strip(SubSeq(line, 9, Len(line)))
        comma == IndexOf(info, ",", 1)
        duration == IF comma = 0 THEN None
                    ELSE parse_duration(SubSeq(info, 1, comma - 1))
        track_info == IF comma = 0 THEN info
                      ELSE Strip(SubSeq(info, comma + 1, Len(info)))
    IN  ParsedTrack(artist_and_title(track_info).title,
                    artist_and_title(track_info).artist, duration, None)

\* the length of the longest run of characters of S that s starts with
RECURSIVE run_length(_, _)
run_length(s, S) ==
    IF s = << >> \/ s[1] \notin S THEN 0 ELSE 1 + run_length(Tail(s), S)

\* parser.py:126: re.sub(r'^\d+[\.\-\s]+', '', name)
strip_track_number(name) ==
    LET d == run_length(name, Digits)
        seps == run_length(SubSeq(name, d + 1, Len(name)), {".", "-"} \cup Whitespace)
    IN  IF d > 0 /\ seps > 0 THEN SubSeq(name, d + seps + 1, Len(name)) ELSE name

\* parser.py:114-137
parse_filename(filename) ==
    LET name == strip_track_number(stem(filename)) IN
    ParsedTrack(artist_and_title(name).title, artist_and_title(name).artist, None, None)

with_file_path(track, path) == [track EXCEPT !.file_path = Some(path)]

IsComment(line) == StartsWithAt(line, <<"#">>, 1)

\* parser.py:54-81: the loop over lines from index i on (lines[i] in the code
\* is lines[i + 1] here)
RECURSIVE parse_lines(_, _, _)
parse_lines(lines, i, acc) ==
    IF i >= Len(lines) THEN acc
    ELSE LET line == Strip(lines[i + 1]) IN
         IF StartsWithAt(line, <<"#","E","X","T","I","N","F",":">>, 1)
         THEN IF i + 1 < Len(lines)
                 /\ Strip(lines[i + 2]) # << >>
                 /\ ~IsComment(Strip(lines[i + 2]))
              THEN parse_lines(lines, i + 2,
                               Append(acc, with_file_path(parse_extinf(line),
                                                          Strip(lines[i + 2]))))
              ELSE parse_lines(lines, i + 1, acc)
         ELSE IF line # << >> /\ ~IsComment(line)
              THEN parse_lines(lines, i + 1,
                               Append(acc, with_file_path(parse_filename(line), line)))
              ELSE parse_lines(lines, i + 1, acc)

\* the exceptions parse raises, each with the fixed part of its message
FileNotFoundError == [type |-> "FileNotFoundError", message |-> "File not found"]

WrongExtension == [type |-> "ValueError", message |-> "File must be .m3u or .m3u8"]

InvalidFile ==
    [type |-> "ValueError", message |-> "Invalid M3U8 file: must start with #EXTM3U"]

\* parser.py:39: the file exists when file_lines holds its lines
exists(lines) == ~IsNone(lines)

\* parser.py:42
suffix_ok(path) == Lower(suffix(path)) \in { <<".","m","3","u">>, <<".","m","3","u","8">> }

\* parser.py:51
header_ok(lines) ==
    lines # << >> /\ StartsWithAt(Strip(lines[1]), <<"#","E","X","T","M","3","U">>, 1)

\* what a call leaves: the exception raised or the list returned, and the
\* parser's two attributes
outcome(raised, returned, kept_tracks, name) ==
    [error |-> raised, parsed |-> returned, self_tracks |-> kept_tracks,
     playlist_name |-> name]

\* a mutant of parse_outcome: the extension is looked at before the file
parse_outcome_suffix_first(path, lines, old_tracks, old_name) ==
    IF ~suffix_ok(path) THEN outcome(Some(WrongExtension), None, old_tracks, old_name)
    ELSE IF ~exists(lines)
    THEN outcome(Some(FileNotFoundError), None, old_tracks, old_name)
    ELSE IF ~header_ok(Get(lines))
    THEN outcome(Some(InvalidFile), None, << >>, Some(stem(path)))
    ELSE outcome(None, Some(parse_lines(Get(lines), 1, << >>)),
                 parse_lines(Get(lines), 1, << >>), Some(stem(path)))

\* parser.py:38-81
parse_outcome(path, lines, old_tracks, old_name) ==
    IF ~exists(lines) THEN outcome(Some(FileNotFoundError), None, old_tracks, old_name)
    ELSE IF ~suffix_ok(path)
    THEN outcome(Some(WrongExtension), None, old_tracks, old_name)
    ELSE IF ~header_ok(Get(lines))
    THEN outcome(Some(InvalidFile), None, << >>, Some(stem(path)))
    ELSE outcome(None, Some(parse_lines(Get(lines), 1, << >>)),
                 parse_lines(Get(lines), 1, << >>), Some(stem(path)))

MaxLines == 2

FilePaths == { <<"a",".","m","3","u","8">>, <<"d","/","b",".","M","3","U">>, <<"a",".","t","x","t">>, <<"m","3","u","8">> }

LinePool ==
    { <<"#","E","X","T","M","3","U","\n">>, <<" "," ","#","E","X","T","M","3","U"," ","x","\n">>, <<"N","o","\n">>, <<"#","E","X","T","I","N","F",":","1","2",",","A"," ","-"," ","B","\n">>,
      <<"/","p","/","0","1","."," ","C"," ","-"," ","D",".","m","p","3","\n">>, <<"\n">>, <<"#"," ","c","\n">> }

InitParse ==
    /\ file_path \in FilePaths
    /\ file_lines \in { None } \cup { Some(lines) : lines \in SeqsUpTo(LinePool, MaxLines) }
    /\ self_tracks = << >>
    /\ playlist_name = None
    /\ parsed = None
    /\ error = None
    /\ pc = "parse"
    /\ local_tracks = << >>
    /\ spotify_tracks = << >>
    /\ threshold = Frac(0, 1)
    /\ idx = 0
    /\ matched_pairs = << >>
    /\ local_only = << >>
    /\ spotify_only = << >>
    /\ matched_spotify_ids = {}
    /\ spotify_results = << >>
    /\ match_result = None
    /\ result = None
    /\ score_args = None
    /\ score_value = None
    /\ first_result = None
    /\ spotify_results_list = << >>
    /\ matches = << >>
    /\ NoCleanCall

\* the call ends as parse_outcome says
finish(o) ==
    /\ error' = o.error
    /\ parsed' = o.parsed
    /\ self_tracks' = o.self_tracks
    /\ playlist_name' = o.playlist_name
    /\ pc' = IF IsNone(o.error) THEN "parsed" ELSE "raised"

Parse ==
    /\ pc = "parse"
    /\ finish(parse_outcome(file_path, file_lines, self_tracks, playlist_name))
    /\ UNCHANGED << local_tracks, spotify_tracks, threshold, idx, matched_pairs,
                    local_only, spotify_only, matched_spotify_ids, spotify_results,
                    match_result, result, score_args, score_value, first_result,
                    best_vars, clean_vars, file_path, file_lines >>

NextParse == Parse

SpecParse == InitParse /\ [][NextParse]_vars

-----------------------------------------------------------------------------
(* A direct call of TrackMatcher._calculate_match_score, matcher.py:86-127 *)

MaxArtistLen == 2

Strings(alphabet, n) == UNION { [1..k -> alphabet] : k \in 0..n }

ScoreLocalTitles == { << >>, <<"a">>, <<"a","b">>, <<"b">> }

ScoreSpotifyTitles == { << >>, <<"A">>, <<"a","b">>, <<"b","!">> }

ScoreArtists ==
    Strings({"a", "b", " "}, MaxArtistLen) \cup { <<"a"," ","b">>, <<"b"," ","a">> }

InitScore ==
    /\ score_args \in { Some(a) : a \in [local_title : ScoreLocalTitles,
                                        local_artist : ScoreArtists,
                                        spotify_title : ScoreSpotifyTitles,
                                        spotify_artist : ScoreArtists] }
    /\ score_value = None
    /\ pc = "score"
    /\ local_tracks = << >>
    /\ spotify_tracks = << >>
    /\ threshold = Frac(0, 1)
    /\ idx = 0
    /\ matched_pairs = << >>
    /\ local_only = << >>
    /\ spotify_only = << >>
    /\ matched_spotify_ids = {}
    /\ spotify_results = << >>
    /\ match_result = None
    /\ result = None
    /\ first_result = None
    /\ NoBestCall
    /\ NoCleanCall
    /\ NoParseCall

CalculateMatchScore ==
    /\ pc = "score"
    /\ score_value' = Some(calculate_match_score(Get(score_args).local_title,
                                                 Get(score_args).local_artist,
                                                 Get(score_args).spotify_title,
                                                 Get(score_args).spotify_artist))
    /\ pc' = "scored"
    /\ UNCHANGED << local_tracks, spotify_tracks, threshold, idx, matched_pairs,
                    local_only, spotify_only, matched_spotify_ids, spotify_results,
                    match_result, result, score_args, first_result, error,
                    best_vars, clean_vars, parse_vars >>

NextScore == CalculateMatchScore

SpecScore == InitScore /\ [][NextScore]_vars

-----------------------------------------------------------------------------
(* Vocabulary of the properties *)

Done == pc = "done"

\* the returned ComparisonResult
Returned == Get(result)

UniqueIds(tracks) ==
    \A i, j \in 1..Len(tracks) : tracks[i].id = tracks[j].id => i = j

\* every track carries an identifier and no two tracks share one (spec, data
\* model: "required and unique within one candidate list")
WellFormedIds(tracks) ==
    UniqueIds(tracks) /\ \A i \in 1..Len(tracks) : tracks[i].id # ""

\* the score of a local track against a track dict of spotify_tracks
LocalScore(local_track, spotify_track) ==
    track_score(clean_local(Some(local_track.title)),
                IF IsNone(local_track.artist) THEN << >>
                ELSE clean_local(local_track.artist),
                track_result(spotify_track))

\* the score of the local track the latest match_track call was for against
\* the k-th search result handed to that call
PoolScore(k) ==
    track_score(clean_local(Some(local_tracks[idx].title)),
                IF IsNone(local_tracks[idx].artist) THEN << >>
                ELSE clean_local(local_tracks[idx].artist),
                spotify_results[k])

\* the positions of the search results that carry an identifier
WithId == { k \in 1..Len(spotify_results) : spotify_results[k].id # "" }

\* the elements of s at the positions in S, in the order of s
RECURSIVE Pick(_, _, _)
Pick(s, S, i) ==
    IF i > Len(s) THEN << >>
    ELSE (IF i \in S THEN << s[i] >> ELSE << >>) \o Pick(s, S, i + 1)

-----------------------------------------------------------------------------
(* C1 - exclusivity.  In every run over spotify_tracks with unique           *)
(* identifiers, no identifier occurs in two matched pairs, none occurs in a  *)
(* matched pair and in spotify_only, and none occurs twice in spotify_only.  *)
(* Checked on the accumulators in every state and on the returned result.    *)

ExclusiveIds(matched, only) ==
    /\ \A i, j \in 1..Len(matched) : matched[i][2].id = matched[j][2].id => i = j
    /\ \A i \in 1..Len(matched), j \in 1..Len(only) : matched[i][2].id # only[j].id
    /\ \A i, j \in 1..Len(only) : only[i].id = only[j].id => i = j

\* C1: identifiers are exclusive in every run over unique identifiers
Exclusivity ==
    UniqueIds(spotify_tracks) =>
        /\ ExclusiveIds(matched_pairs, spotify_only)
        /\ Done => ExclusiveIds(Returned.matched, Returned.spotify_only)

\* a finished run in which one candidate was matched by the first local track,
\* the second local track found it gone, and the other candidate was left over
ExclusivityWitness ==
    /\ Done
    /\ UniqueIds(spotify_tracks)
    /\ Len(local_tracks) = 2
    /\ local_tracks[1] = local_tracks[2]
    /\ Len(Returned.matched) = 1
    /\ Len(Returned.local_only) = 1
    /\ Len(Returned.spotify_only) = 1

-----------------------------------------------------------------------------
(* C2 - threshold gate.  After every match_track call: a returned            *)
(* MatchResult has confidence >= threshold, and when every search result     *)
(* that carries an identifier scores below the threshold the call returned   *)
(* None.                                                                     *)

\* C2: a MatchResult is returned only at or above the threshold
ThresholdGate ==
    idx > 0 =>
        /\ ~IsNone(match_result) => FLe(threshold, Get(match_result).confidence)
        /\ (\A k \in WithId : FLt(PoolScore(k), threshold)) => IsNone(match_result)

\* a call that returned a match scoring strictly between 0 and 1, and at least
\* the threshold
ThresholdGateWitness ==
    /\ idx > 0
    /\ ~IsNone(match_result)
    /\ FLt(Frac(0, 1), Get(match_result).confidence)
    /\ FLt(Get(match_result).confidence, Frac(1, 1))

-----------------------------------------------------------------------------
(* C3 - first match wins.  With two local tracks and a single candidate      *)
(* (carrying an identifier) against which each of the two scores >=          *)
(* threshold, the returned result pairs the first local track with the       *)
(* candidate and holds the second local track in local_only.                 *)

TwoLocalsOneCandidate ==
    /\ Done
    /\ Len(local_tracks) = 2
    /\ Len(spotify_tracks) = 1
    /\ spotify_tracks[1].id # ""
    /\ FLe(threshold, LocalScore(local_tracks[1], spotify_tracks[1]))
    /\ FLe(threshold, LocalScore(local_tracks[2], spotify_tracks[1]))

\* C3: the first of two local tracks that both reach the threshold is matched
FirstMatchWins ==
    TwoLocalsOneCandidate =>
        /\ Returned.matched = << << local_tracks[1], spotify_tracks[1] >> >>
        /\ Returned.local_only = << local_tracks[2] >>

\* the part of C3 the code keeps: the same, when the first local track's score
\* against the candidate is not zero
FirstMatchWinsPositiveScore ==
    (TwoLocalsOneCandidate
        /\ FLt(Frac(0, 1), LocalScore(local_tracks[1], spotify_tracks[1])))
    => /\ Returned.matched = << << local_tracks[1], spotify_tracks[1] >> >>
       /\ Returned.local_only = << local_tracks[2] >>

-----------------------------------------------------------------------------
(* C4 - score range.  The value _calculate_match_score returns, for any      *)
(* local title, local artist, candidate title and candidate artist, lies in  *)
(* [0, 1].  Checked under SpecScore.                                         *)

InUnitInterval(x) == FLe(Frac(0, 1), x) /\ FLe(x, Frac(1, 1))

\* C4: every returned score lies in [0, 1]
ScoreRange == ~IsNone(score_value) => InUnitInterval(Get(score_value))

\* a call with both artists present and equal titles whose weighted score is
\* above 0.9, so that the bonus is cut by the cap
ScoreRangeWitness ==
    /\ ~IsNone(score_value)
    /\ Get(score_args).local_artist # << >>
    /\ clean_string(Some(Get(score_args).spotify_artist)) # << >>
    /\ Get(score_args).local_title = clean_string(Some(Get(score_args).spotify_title))
    /\ FLt(Frac(9, 10),
           weighted(Frac(1, 1),
                    boosted_artist_score(Get(score_args).local_artist,
                                         clean_string(Some(Get(score_args).spotify_artist)))))
    /\ FEq(Get(score_value), Frac(1, 1))


\* the same for the confidence of every MatchResult a compare_playlists run
\* obtains (checked under Spec)
ConfidenceRange ==
    ~IsNone(match_result) => InUnitInterval(Get(match_result).confidence)


-----------------------------------------------------------------------------
(* C5 - best selection with tie-break.  A MatchResult returned by            *)
(* match_track describes a search result k that carries an identifier, whose *)
(* score is the greatest among the results carrying an identifier, and every *)
(* such result before k scores strictly less.                                *)

DescribesResult(m, k) ==
    /\ m.spotify_id = spotify_results[k].id
    /\ m.matched_title = spotify_results[k].name
    /\ m.matched_artist = Join(spotify_results[k].artists, <<" ">>)
    /\ m.confidence = PoolScore(k)
    /\ m.original_title = local_tracks[idx].title
    /\ m.original_artist = local_tracks[idx].artist

IsEarliestBest(k) ==
    /\ \A j \in WithId : FLe(PoolScore(j), PoolScore(k))
    /\ \A j \in WithId : j < k => FLt(PoolScore(j), PoolScore(k))

\* C5: the returned MatchResult is the earliest best result with an identifier
BestSelection ==
    (idx > 0 /\ ~IsNone(match_result)) =>
        \E k \in WithId : DescribesResult(Get(match_result), k) /\ IsEarliestBest(k)

\* a call in which a later result with another identifier ties with the one
\* returned
BestSelectionWitness ==
    /\ idx > 0
    /\ ~IsNone(match_result)
    /\ \E k, l \in WithId :
          /\ k < l
          /\ Get(match_result).spotify_id = spotify_results[k].id
          /\ spotify_results[l].id # spotify_results[k].id
          /\ FEq(PoolScore(l), PoolScore(k))

-----------------------------------------------------------------------------
(* C6 - no match only when nothing clears the threshold.  After every        *)
(* match_track call: the call returned None exactly when no search result    *)
(* carrying an identifier scores >= threshold.                               *)

\* C6: None is returned exactly when no result with an identifier reaches the
\* threshold
NoMatchOnlyBelowThreshold ==
    idx > 0 =>
        (IsNone(match_result) <=> \A k \in WithId : FLt(PoolScore(k), threshold))

\* what the code does instead: None exactly when no result with an identifier
\* scores both >= threshold and above the initial best_score 0.0
NoMatchOnlyBelowThresholdOrZero ==
    idx > 0 =>
        (IsNone(match_result) <=>
            \A k \in WithId : FLt(PoolScore(k), threshold) \/ FEq(PoolScore(k), Frac(0, 1)))

-----------------------------------------------------------------------------
(* C7 - local partition.  The local tracks processed so far are split        *)
(* between the left elements of matched_pairs and local_only, each keeping   *)
(* the input order; in the returned result len(matched) + len(local_only)    *)
(* equals total_local, which equals len(local_tracks).                       *)

Lefts(pairs) == [i \in 1..Len(pairs) |-> pairs[i][1]]

SplitsInOrder(n, lefts, only) ==
    \E M \in SUBSET (1..n) :
        /\ Pick(local_tracks, M, 1) = lefts
        /\ Pick(local_tracks, (1..n) \ M, 1) = only

\* C7: the local tracks are partitioned, in order, into matched and local_only
LocalPartition ==
    /\ Len(matched_pairs) + Len(local_only) = idx
    /\ SplitsInOrder(idx, Lefts(matched_pairs), local_only)
    /\ Done =>
        /\ Returned.total_local = Len(local_tracks)
        /\ Len(Returned.matched) + Len(Returned.local_only) = Returned.total_local
        /\ SplitsInOrder(Len(local_tracks), Lefts(Returned.matched), Returned.local_only)

\* a finished run over two different local tracks of which the first ended in
\* local_only and the second in a matched pair
LocalPartitionWitness ==
    /\ Done
    /\ Len(local_tracks) = 2
    /\ local_tracks[1] # local_tracks[2]
    /\ Returned.local_only = << local_tracks[1] >>
    /\ Lefts(Returned.matched) = << local_tracks[2] >>

-----------------------------------------------------------------------------
(* C8 - right-only content and order.  The consumed set holds exactly the    *)
(* identifiers of the matched pairs, and the returned spotify_only is the    *)
(* subsequence of spotify_tracks whose identifier is not in it.              *)

IdsOf(pairs) == { pairs[i][2].id : i \in 1..Len(pairs) }

\* C8: spotify_only is the unconsumed part of spotify_tracks, in order
RightOnly ==
    /\ matched_spotify_ids = IdsOf(matched_pairs)
    /\ Done =>
        Returned.spotify_only =
            SelectSeq(spotify_tracks, LAMBDA t : t.id \notin IdsOf(Returned.matched))

\* a finished run over two candidates of which the second was matched and the
\* first was left over
RightOnlyWitness ==
    /\ Done
    /\ Len(spotify_tracks) = 2
    /\ IdsOf(Returned.matched) = { spotify_tracks[2].id }
    /\ Returned.spotify_only = << spotify_tracks[1] >>

-----------------------------------------------------------------------------
(* C9 - match percentage.  The returned match_percentage is                  *)
(* len(matched) / (len(local_tracks) + len(spotify_only)) * 100, and 0.0     *)
(* when that denominator is zero.                                            *)

\* C9: match_percentage is matched / (local + spotify_only) * 100, or 0.0
PercentageFormula ==
    Done =>
        LET total == Len(local_tracks) + Len(Returned.spotify_only) IN
        IF total = 0 THEN FEq(Returned.match_percentage, Frac(0, 1))
        ELSE Returned.match_percentage[1] * total
                 = Len(Returned.matched) * 100 * Returned.match_percentage[2]

\* a finished run with a matched pair, a local-only track and a Spotify-only
\* track
PercentageFormulaWitness ==
    /\ Done
    /\ Len(Returned.matched) = 1
    /\ Len(Returned.local_only) = 1
    /\ Len(Returned.spotify_only) = 1

-----------------------------------------------------------------------------
(* C10 - identical sets.  When spotify_tracks mirrors local_tracks (the i-th *)
(* track has the title and the artist of the i-th local track; the           *)
(* identifiers are present and unique), the returned result matches every    *)
(* local track, local_only and spotify_only are empty and match_percentage   *)
(* is 100.0.                                                                 *)

Mirrors(spotify_track, local_track) ==
    /\ spotify_track.name = local_track.title
    /\ spotify_track.artists =
           (IF IsNone(local_track.artist) THEN << >> ELSE Get(local_track.artist))

MirroredLists ==
    /\ Len(spotify_tracks) = Len(local_tracks)
    /\ \A i \in 1..Len(local_tracks) : Mirrors(spotify_tracks[i], local_tracks[i])
    /\ WellFormedIds(spotify_tracks)

AllMatchedInFull ==
    /\ Lefts(Returned.matched) = local_tracks
    /\ Returned.local_only = << >>
    /\ Returned.spotify_only = << >>
    /\ FEq(Returned.match_percentage, Frac(100, 1))

\* C10 as stated: mirrored lists are matched in full, with match_percentage
\* 100.0
IdenticalSets == (Done /\ MirroredLists) => AllMatchedInFull

\* C10 for lists that are not empty: mirrored lists are matched in full, with
\* match_percentage 100.0
IdenticalSetsNonEmpty ==
    (Done /\ MirroredLists /\ Len(local_tracks) > 0) => AllMatchedInFull

\* a finished run over two different local tracks and their mirror
IdenticalSetsWitness ==
    /\ Done
    /\ MirroredLists
    /\ Len(local_tracks) = 2
    /\ local_tracks[1] # local_tracks[2]
    /\ AllMatchedInFull

-----------------------------------------------------------------------------
(* C11 - disjoint sets.  When no local track scores >= threshold against any *)
(* candidate, the returned result has no matched pair, local_only is         *)
(* local_tracks, spotify_only is spotify_tracks and match_percentage is 0.0; *)
(* an empty local_tracks and an empty spotify_tracks are such cases.         *)

NothingReachesThreshold ==
    \A i \in 1..Len(local_tracks), j \in 1..Len(spotify_tracks) :
        FLt(LocalScore(local_tracks[i], spotify_tracks[j]), threshold)

NothingMatched ==
    /\ Returned.matched = << >>
    /\ Returned.local_only = local_tracks
    /\ Returned.spotify_only = spotify_tracks
    /\ FEq(Returned.match_percentage, Frac(0, 1))

\* C11: when no pair reaches the threshold nothing is matched, both lists are
\* returned whole and in order, and match_percentage is 0.0
DisjointSets == (Done /\ NothingReachesThreshold) => NothingMatched

\* a finished run over two different local tracks and two candidates with
\* identifiers, one of which scores above zero, none reaching the threshold
DisjointSetsWitness ==
    /\ Done
    /\ NothingReachesThreshold
    /\ Len(local_tracks) = 2
    /\ local_tracks[1] # local_tracks[2]
    /\ Len(spotify_tracks) = 2
    /\ WellFormedIds(spotify_tracks)
    /\ \E i, j \in 1..2 :
          FLt(Frac(0, 1), LocalScore(local_tracks[i], spotify_tracks[j]))
    /\ NothingMatched

\* the runs over an empty candidate list and over an empty local list
DisjointSetsEmptyWitness ==
    /\ Done
    /\ (Len(spotify_tracks) = 0 /\ Len(local_tracks) = 2)
       \/ (Len(local_tracks) = 0 /\ Len(spotify_tracks) = 2)
    /\ NothingMatched

-----------------------------------------------------------------------------
(* C12 - repeatable.  A second compare_playlists call on the same comparer   *)
(* and the same two lists returns the ComparisonResult the first call        *)
(* returned, and no step of either call changes local_tracks, spotify_tracks *)
(* or the threshold.  Checked under SpecRepeat.                              *)

\* C12: the second call returns what the first returned and the inputs are
\* never altered
Repeatable ==
    [][ /\ local_tracks' = local_tracks
        /\ spotify_tracks' = spotify_tracks
        /\ threshold' = threshold
        /\ (pc' = "done" /\ ~IsNone(first_result')) => result' = first_result' ]_vars

\* a second call that has returned, after a first call that consumed a
\* candidate and left a local track and a candidate unmatched
RepeatableWitness ==
    /\ Done
    /\ ~IsNone(first_result)
    /\ Len(Get(first_result).matched) = 1
    /\ Len(Get(first_result).local_only) = 1
    /\ Len(Get(first_result).spotify_only) = 1
    /\ result = first_result

-----------------------------------------------------------------------------
(* C13 - length mismatch.  A find_best_matches call with                     *)
(* len(local_tracks) # len(spotify_results_list) matches no track and        *)
(* appends nothing to matches: it stays where it started until it raises     *)
(* ValueError, and it never returns.  Checked under SpecBest.                *)

\* C13: a call with lists of different lengths raises ValueError before any
\* track is matched and returns nothing
LengthMismatchRaises ==
    /\ Len(local_tracks) # Len(spotify_results_list) =>
          /\ pc \in {"best", "raised"}
          /\ idx = 0
          /\ matches = << >>
          /\ IsNone(match_result)
          /\ pc = "raised" <=> (~IsNone(error) /\ Get(error).type = "ValueError")
    /\ pc = "raised" => Len(local_tracks) # Len(spotify_results_list)

\* a call with fewer local tracks than result lists, the first of which would
\* match the first local track, has raised
LengthMismatchRaisesWitness ==
    /\ pc = "raised"
    /\ Get(error).type = "ValueError"
    /\ Len(local_tracks) = 1
    /\ Len(spotify_results_list) = 2
    /\ ~IsNone(match_track(threshold, local_tracks[1].title, local_tracks[1].artist,
                            spotify_results_list[1]))

-----------------------------------------------------------------------------
(* C14 - element-wise matching.  In a find_best_matches call over lists of   *)
(* equal length, matches holds one element per slot processed, the i-th      *)
(* being what match_track returns for the i-th title, artist and result list *)
(* - None for an empty result list -, and the returned list is as long as    *)
(* local_tracks.  Checked under SpecBest.                                    *)

\* C14: the i-th element of matches is match_track of the i-th slot alone
ElementWise ==
    (pc \in {"best", "best_done"}
        /\ Len(local_tracks) = Len(spotify_results_list)) =>
        /\ Len(matches) = idx
        /\ pc = "best_done" => Len(matches) = Len(local_tracks)
        /\ \A i \in 1..Len(matches) :
              /\ matches[i] = match_track(threshold, local_tracks[i].title,
                                          local_tracks[i].artist, spotify_results_list[i])
              /\ spotify_results_list[i] = << >> => IsNone(matches[i])

\* a returned list of two slots: a None for a non-empty result list, then a
\* match whose result list would also have matched the first local track
ElementWiseWitness ==
    /\ pc = "best_done"
    /\ Len(matches) = 2
    /\ spotify_results_list[1] # << >>
    /\ IsNone(matches[1])
    /\ ~IsNone(matches[2])
    /\ ~IsNone(match_track(threshold, local_tracks[1].title, local_tracks[1].artist,
                            spotify_results_list[2]))

-----------------------------------------------------------------------------
(* C15 - perfect match.  When the local title handed to                      *)
(* _calculate_match_score equals the normalized candidate title and the      *)
(* local artist equals the normalized candidate artist, the score returned   *)
(* is exactly 1.0.  Checked under SpecScore.                                 *)

TitlesEqual == Get(score_args).local_title = clean_string(Some(Get(score_args).spotify_title))

ArtistsEqual == Get(score_args).local_artist = clean_string(Some(Get(score_args).spotify_artist))

\* C15: equal normalized titles and equal normalized artists score exactly 1.0
PerfectMatch ==
    (~IsNone(score_value) /\ TitlesEqual /\ ArtistsEqual) =>
        FEq(Get(score_value), Frac(1, 1))

\* a call with equal non-empty titles and equal artists of two names, whose
\* candidate title is not in normalized form
PerfectMatchWitness ==
    /\ ~IsNone(score_value)
    /\ TitlesEqual
    /\ ArtistsEqual
    /\ Get(score_args).local_title # << >>
    /\ Get(score_args).spotify_title # Get(score_args).local_title
    /\ Len(Words(Get(score_args).local_artist)) = 2
    /\ FEq(Get(score_value), Frac(1, 1))

-----------------------------------------------------------------------------
(* C16 - reordered artists.  After a match_track call of find_best_matches:  *)
(* for a search result with an identifier whose normalized title equals the  *)
(* normalized local title and whose normalized artist has the same set of    *)
(* words as the normalized local artist, more than one, the artist score is  *)
(* at least 0.95 and the result scores at least 0.83; at threshold 0.83 the  *)
(* call returned a match with confidence >= 0.83, and it is this result      *)
(* unless an earlier one scores as much.  Checked under SpecBest.            *)

\* the titles, the artists and the joined artists of the search results of
\* ResultLists
ResultTexts ==
    UNION { { r.name, Join(r.artists, <<" ">>) } \cup Range(r.artists) :
                r \in UNION { Range(results) : results \in ResultLists } }

\* _clean_string on every text of the search results, evaluated once
ResultCleanTable == [text \in ResultTexts |-> clean_string(Some(text))]

\* the similarity of every normalized local artist and normalized result
\* artist, raw and with the boosts, evaluated once
ArtistScores ==
    [local_artist \in { CleanTable[l.artist] : l \in AllLocals } |->
        [spotify_artist \in { ResultCleanTable[text] : text \in ResultTexts } |->
            [raw |-> ratio(local_artist, spotify_artist),
             boosted |-> boosted_artist_score(local_artist, spotify_artist)]]]

\* the normalized artist of the local track of the latest match_track call
LocalArtistClean ==
    IF IsNone(local_tracks[idx].artist) THEN << >>
    ELSE clean_local(local_tracks[idx].artist)

\* the normalized artist of the k-th search result of that call
ResultArtistClean(k) == ResultCleanTable[Join(spotify_results[k].artists, <<" ">>)]

\* the raw and the boosted artist score of the local track against result k
ArtistScoreOf(k) == ArtistScores[LocalArtistClean][ResultArtistClean(k)]

SameArtistsAnyOrder(k) ==
    /\ ResultCleanTable[spotify_results[k].name]
           = clean_local(Some(local_tracks[idx].title))
    /\ Range(Words(LocalArtistClean)) = Range(Words(ResultArtistClean(k)))
    /\ Cardinality(Range(Words(LocalArtistClean))) > 1

\* C16: a result with the same title and the same artists in any order is
\* matched with confidence >= 0.83 at threshold 0.83
ReorderedArtists ==
    idx > 0 =>
        \A k \in WithId :
            SameArtistsAnyOrder(k) =>
                /\ FLe(Frac(95, 100), ArtistScoreOf(k).boosted)
                /\ FLe(Frac(83, 100), PoolScore(k))
                /\ threshold = Frac(83, 100) =>
                      /\ ~IsNone(match_result)
                      /\ FLe(Frac(83, 100), Get(match_result).confidence)
                      /\ (\A j \in WithId : j < k => FLt(PoolScore(j), PoolScore(k)))
                            => Get(match_result).spotify_id = spotify_results[k].id

\* a call at threshold 0.83 that returned the result whose two artists are
\* those of the local track in the other order
ReorderedArtistsWitness ==
    /\ idx > 0
    /\ threshold = Frac(83, 100)
    /\ ~IsNone(match_result)
    /\ \E k \in WithId :
          /\ SameArtistsAnyOrder(k)
          /\ LocalArtistClean # ResultArtistClean(k)
          /\ Get(match_result).spotify_id = spotify_results[k].id

-----------------------------------------------------------------------------
(* Vocabulary of the properties of _clean_string, read under SpecClean *)

Cleaned == pc = "cleaned" /\ ~IsNone(clean_text)

\* the text of the call in lower case; its positions are those of the text
Lowered == Lower(Get(clean_text))

\* the returned string
Out == Get(clean_value)

\* a span << p, q >>: an opener at p and the first closer of its kind after p
SpansOf(t, open, close) ==
    { << p, IndexOf(t, close, p + 1) >> :
        p \in { i \in 1..Len(t) : t[i] = open /\ IndexOf(t, close, i + 1) # 0 } }

AllSpans(t) == SpansOf(t, "(", ")") \cup SpansOf(t, "[", "]")

Content(t, s) == SubSeq(t, s[1] + 1, s[2] - 1)

\* the text with the span cut out
Without(t, s) == SubSeq(t, 1, s[1] - 1) \o SubSeq(t, s[2] + 1, Len(t))

\* a parenthesized span the featuring pattern of matcher.py:156 matches
IsFeatSpan(t, s) == t[s[1]] = "(" /\ ~IsNone(FeatGroup(t, s[1], s[2]))

\* the span shares no character with another span of the text
Apart(t, s) == \A o \in AllSpans(t) \ { s } : o[2] < s[1] \/ o[1] > s[2]

\* a piece of text as it reads after steps matcher.py:171-177
Normal(x) == Join(Words(ReplaceSpecial(x)), <<" ">>)

\* the letters, digits and underscores of the span's content that occur
\* nowhere else in the text
OwnChars(t, s) == (Range(Content(t, s)) \cap WordChars) \ Range(Without(t, s))

-----------------------------------------------------------------------------
(* C17 - marker spans survive, other spans do not.  For every parenthesized  *)
(* or bracketed span of the text: if its content holds a marker, the content *)
(* (normalized) is part of the output; if it holds none and the span is not  *)
(* a featuring span, no character that occurs only in the span occurs in the *)
(* output.  Checked under SpecClean.                                         *)

MarkerSpanSurvives(s) ==
    HasMarker(Content(Lowered, s)) => Contains(Out, Normal(Content(Lowered, s)))

OtherSpanVanishes(s) ==
    (~HasMarker(Content(Lowered, s)) /\ ~IsFeatSpan(Lowered, s)) =>
        OwnChars(Lowered, s) \cap Range(Out) = {}

\* C17 as stated: marker spans are part of the output, spans without a marker
\* that are not featuring spans leave nothing in it
MarkerSpansOnly ==
    Cleaned => \A s \in AllSpans(Lowered) : MarkerSpanSurvives(s) /\ OtherSpanVanishes(s)

\* C17 with the second half kept to spans that share no character with
\* another span
MarkerSpansOnlyApart ==
    Cleaned =>
        \A s \in AllSpans(Lowered) :
            /\ MarkerSpanSurvives(s)
            /\ Apart(Lowered, s) => OtherSpanVanishes(s)

\* a call on a text with a bracketed marker span, its content in the output,
\* and a parenthesized span apart from it, of which the output shows nothing
MarkerSpansOnlyWitness ==
    /\ Cleaned
    /\ \E s \in SpansOf(Lowered, "[", "]") :
          /\ HasMarker(Content(Lowered, s))
          /\ Contains(Out, Normal(Content(Lowered, s)))
    /\ \E s \in SpansOf(Lowered, "(", ")") :
          /\ ~HasMarker(Content(Lowered, s))
          /\ ~IsFeatSpan(Lowered, s)
          /\ Apart(Lowered, s)
          /\ OwnChars(Lowered, s) # {}
          /\ OwnChars(Lowered, s) \cap Range(Out) = {}

-----------------------------------------------------------------------------
(* C18 - featuring spans are removed.  For every parenthesized featuring     *)
(* span of the text whose content holds no marker, the output is the output  *)
(* for the text with the span cut out.  Checked under SpecClean.             *)

\* the featuring spans of the text that hold no marker
PlainFeatSpans ==
    { s \in SpansOf(Lowered, "(", ")") :
        IsFeatSpan(Lowered, s) /\ ~HasMarker(Content(Lowered, s)) }

SameAsWithout(s) == Out = clean_string(Some(Without(Get(clean_text), s)))

-----------------------------------------------------------------------------
(* C20 - featuring names are kept when new.  For every parenthesized         *)
(* featuring span of the text: when none of the names of its group (split on *)
(* & or on ,) occurs in the rest of the text, the group (normalized) is part *)
(* of the output.  Checked under SpecClean.                                  *)

\* the names of a featuring group as matcher.py:160 lists them, blank ones
\* left out
NamesOf(group) ==
    { Strip(n) : n \in Range(SplitOn(group, "&") \o SplitOn(group, ",")) } \ { << >> }

\* no name of the span's group occurs in the text outside the span
NamesAreNew(s) ==
    \A n \in NamesOf(Get(FeatGroup(Lowered, s[1], s[2]))) :
        ~Contains(Without(Lowered, s), n)

\* C20: a featuring group none of whose names occurs elsewhere in the text is
\* appended to the output
FeatKeptWhenNew ==
    Cleaned =>
        \A s \in { f \in SpansOf(Lowered, "(", ")") : IsFeatSpan(Lowered, f) } :
            NamesAreNew(s) =>
                Contains(Out, Normal(Get(FeatGroup(Lowered, s[1], s[2]))))

\* what the code does instead: the names are looked for in the text that
\* still holds the span, so that no group with a name in it is appended
FeatNeverKept ==
    Cleaned =>
        \A i \in 1..Len(KeptFeats(FindFeat(Lowered, 1), Lowered)) :
            NamesOf(KeptFeats(FindFeat(Lowered, 1), Lowered)[i]) = {}

-----------------------------------------------------------------------------
(* C19 - parser input validation.  A parse call raises FileNotFoundError     *)
(* when there is no file at the path; otherwise ValueError when the path's   *)
(* extension is not .m3u or .m3u8; otherwise ValueError when the file has no *)
(* line or its first line does not start with #EXTM3U.  A call that raises   *)
(* returns no track list.  Checked under SpecParse.                          *)

Ended == pc \in {"parsed", "raised"}

HasFile == ~IsNone(file_lines)

\* the extension of the path is .m3u or .m3u8, in any letter case
PlaylistExtension == Lower(suffix(file_path)) \in { <<".","m","3","u">>, <<".","m","3","u","8">> }

Raised(type) == pc = "raised" /\ Get(error).type = type /\ IsNone(parsed)

\* the three checks, in their order; no_header says that the file has no
\* line or that its first line is not a header
ValidationInOrder(no_header) ==
    /\ ~HasFile => Raised("FileNotFoundError")
    /\ (HasFile /\ ~PlaylistExtension) => Raised("ValueError")
    /\ (HasFile /\ PlaylistExtension /\ no_header) => Raised("ValueError")
    /\ pc = "raised" => IsNone(parsed)

BeginsWithHeader(line) == StartsWithAt(line, <<"#","E","X","T","M","3","U">>, 1)

BeginsWithHeaderStripped(line) == StartsWithAt(Strip(line), <<"#","E","X","T","M","3","U">>, 1)

InputValidationNoFileWitness ==
    /\ Raised("FileNotFoundError")
    /\ ~PlaylistExtension

\* a call on a playlist file whose first line is no header
InputValidationHeaderWitness ==
    /\ Raised("ValueError")
    /\ Get(error) = InvalidFile
    /\ Get(file_lines) # << >>

-----------------------------------------------------------------------------
(* Vocabulary of the claims about the parts of a score, for a direct call of *)
(* _calculate_match_score (SpecScore)                                        *)

\* the normalized candidate artist of the call
CandidateArtist == clean_string(Some(Get(score_args).spotify_artist))

\* title_score of the call, matcher.py:97
TitleScore ==
    ratio(Get(score_args).local_title,
          clean_string(Some(Get(score_args).spotify_title)))

\* artist_score of the call with its boosts, matcher.py:101-111
ArtistScore == boosted_artist_score(Get(score_args).local_artist, CandidateArtist)

\* the call returned total_score with the bonus of matcher.py:124-125 applied
ReturnedTotal(total_score) ==
    FEq(Get(score_value),
        IF TitlesEqual THEN exact_title_bonus(total_score) ELSE total_score)

-----------------------------------------------------------------------------
(* C21 - artist evidence.  As claimed: the total before the bonus is         *)
(* title_score alone when the local artist is empty, and the weighted        *)
(* combination of title_score and artist_score whenever the local artist is  *)
(* not empty, the candidate artist being empty or not.  The code takes       *)
(* title_score alone when either artist is empty (matcher.py:100).  Checked  *)
(* under SpecScore.                                                          *)

\* C21 as claimed: the weighted combination is used whenever the local artist
\* is not empty, also against an empty candidate artist
ArtistEvidence ==
    ~IsNone(score_value) =>
        IF Get(score_args).local_artist = << >>
        THEN ReturnedTotal(TitleScore)
        ELSE ReturnedTotal(weighted(TitleScore, ArtistScore))

\* C21 amended: title_score alone exactly when the local artist or the
\* normalized candidate artist is empty, the weighted combination otherwise
ArtistEvidenceBoth ==
    ~IsNone(score_value) =>
        IF Get(score_args).local_artist = << >> \/ CandidateArtist = << >>
        THEN ReturnedTotal(TitleScore)
        ELSE ReturnedTotal(weighted(TitleScore, ArtistScore))

\* a call with both artists present whose weighted total differs from its
\* title score
ArtistEvidenceWitness ==
    /\ ~IsNone(score_value)
    /\ Get(score_args).local_artist # << >>
    /\ CandidateArtist # << >>
    /\ ~FEq(weighted(TitleScore, ArtistScore), TitleScore)
    /\ ReturnedTotal(weighted(TitleScore, ArtistScore))

\* a call with a local artist against an empty candidate artist, which
\* returns the title score where the weighted total is another value
ArtistEvidenceEmptyCandidateWitness ==
    /\ ~IsNone(score_value)
    /\ Get(score_args).local_artist # << >>
    /\ CandidateArtist = << >>
    /\ ~TitlesEqual
    /\ FLt(Frac(0, 1), TitleScore)
    /\ ReturnedTotal(TitleScore)
    /\ ~ReturnedTotal(weighted(TitleScore, ArtistScore))

-----------------------------------------------------------------------------
(* C22 - weighting and bonus.  For a call with both artists present the      *)
(* total before the bonus is 0.4*title_score + 0.6*artist_score when the     *)
(* boosted artist_score is below 0.6 and 0.6*title_score + 0.4*artist_score  *)
(* otherwise; the value returned is min(1.0, total + 0.1) when the local     *)
(* title equals the normalized candidate title and the total itself when it  *)
(* does not.  Checked under SpecScore.                                       *)

BothArtistsPresent == Get(score_args).local_artist # << >> /\ CandidateArtist # << >>

PenaltyTotal == FAdd(FMul(Frac(4, 10), TitleScore), FMul(Frac(6, 10), ArtistScore))

NormalTotal == FAdd(FMul(Frac(6, 10), TitleScore), FMul(Frac(4, 10), ArtistScore))

\* the total the claim states for the call, before the bonus
ClaimedTotal ==
    IF ~BothArtistsPresent THEN TitleScore
    ELSE IF FLt(ArtistScore, Frac(6, 10)) THEN PenaltyTotal
    ELSE NormalTotal

\* C22: the returned score is the stated total, with 0.1 added and the sum cut
\* at 1.0 exactly when the titles are equal
WeightingAndBonus ==
    ~IsNone(score_value) =>
        FEq(Get(score_value),
            IF TitlesEqual
            THEN FMin(Frac(1, 1), FAdd(ClaimedTotal, Frac(1, 10)))
            ELSE ClaimedTotal)

\* a call with equal titles and an artist score below 0.6: the penalty
\* weighting plus an uncut bonus is returned
WeightingAndBonusWitness ==
    /\ ~IsNone(score_value)
    /\ BothArtistsPresent
    /\ TitlesEqual
    /\ FLt(ArtistScore, Frac(6, 10))
    /\ FLt(Frac(0, 1), ArtistScore)
    /\ FLt(FAdd(PenaltyTotal, Frac(1, 10)), Frac(1, 1))
    /\ FEq(Get(score_value), FAdd(PenaltyTotal, Frac(1, 10)))

\* a call with different titles and an artist score of at least 0.6: the
\* normal weighting is returned without a bonus
WeightingNormalWitness ==
    /\ ~IsNone(score_value)
    /\ BothArtistsPresent
    /\ ~TitlesEqual
    /\ FLe(Frac(6, 10), ArtistScore)
    /\ FLt(Frac(0, 1), TitleScore)
    /\ ~FEq(NormalTotal, PenaltyTotal)
    /\ FEq(Get(score_value), NormalTotal)

-----------------------------------------------------------------------------
(* C23 - low artist scores penalize.  As claimed: for a call with both       *)
(* artists present whose artist_score is below 0.6, the total the code       *)
(* computes (the penalty weighting) is no greater than the total the normal  *)
(* weighting gives for the same title_score and artist_score.  Checked       *)
(* under SpecScore.                                                          *)

\* the call took the penalty branch of matcher.py:115-116
Penalized == ~IsNone(score_value) /\ BothArtistsPresent /\ FLt(ArtistScore, Frac(6, 10))

\* C23 as claimed: the total of a penalized call is at most the total of the
\* normal weighting
LowArtistPenalizes ==
    Penalized => FLe(weighted(TitleScore, ArtistScore), NormalTotal)

\* what holds instead: the penalized total is at most the normal one exactly
\* when the artist score is at most the title score
LowArtistPenalizesBelowTitle ==
    Penalized =>
        (FLe(weighted(TitleScore, ArtistScore), NormalTotal)
            <=> FLe(ArtistScore, TitleScore))

-----------------------------------------------------------------------------
(* C24 - boosts only raise.  After a match_track call of find_best_matches,  *)
(* for every search result whose normalized artist and the normalized local  *)
(* artist are both present: the boosted artist score is at least the raw     *)
(* similarity ratio, and at least 0.9 when the normalized local artist is a  *)
(* substring of the normalized candidate artist.  As claimed, a local artist *)
(* who is one of several artists of a result with an identifier and the same *)
(* normalized title is therefore matched at threshold 0.8.  Checked under    *)
(* SpecBest.                                                                 *)

\* the normalized local artist occurs in the normalized artist of result k
ArtistContained(k) == Contains(Lower(ResultArtistClean(k)), Lower(LocalArtistClean))

\* the boosts never lower the artist score of result k, and a contained local
\* artist scores at least 0.9
BoostsRaise(k) ==
    (LocalArtistClean # << >> /\ ResultArtistClean(k) # << >>) =>
        LET artist_score == ArtistScoreOf(k) IN
        /\ FLe(artist_score.raw, artist_score.boosted)
        /\ ArtistContained(k) => FLe(Frac(9, 10), artist_score.boosted)

SameTitle(k) ==
    ResultCleanTable[spotify_results[k].name] = clean_local(Some(local_tracks[idx].title))

\* the local artist is one of the several artists of result k
OneOfSeveral(k) ==
    /\ ~IsNone(local_tracks[idx].artist)
    /\ Len(spotify_results[k].artists) > 1
    /\ \E j \in 1..Len(spotify_results[k].artists) :
          ResultCleanTable[spotify_results[k].artists[j]] = LocalArtistClean

\* the normalized local artist is contained in the normalized string of the
\* several artists of result k
ContainedInSeveral(k) ==
    /\ ~IsNone(local_tracks[idx].artist)
    /\ Len(spotify_results[k].artists) > 1
    /\ ArtistContained(k)

\* the call was made at threshold 0.8 and returned a match
MatchedAtFourFifths ==
    threshold = Frac(8, 10) =>
        ~IsNone(match_result) /\ FLe(Frac(8, 10), Get(match_result).confidence)

\* C24 as claimed: a local artist who is one of several candidate artists,
\* with an equal normalized title, is matched at threshold 0.8
BoostsOnlyRaise ==
    idx > 0 =>
        \A k \in 1..Len(spotify_results) :
            /\ BoostsRaise(k)
            /\ (k \in WithId /\ SameTitle(k) /\ OneOfSeveral(k)) => MatchedAtFourFifths

\* C24 amended: a local artist whose normalized name is contained in the
\* normalized string of several candidate artists, with an equal normalized
\* title, is matched at threshold 0.8
BoostsOnlyRaiseContained ==
    idx > 0 =>
        \A k \in 1..Len(spotify_results) :
            /\ BoostsRaise(k)
            /\ (k \in WithId /\ SameTitle(k) /\ ContainedInSeveral(k))
                  => MatchedAtFourFifths

\* a call at threshold 0.8 that returned a result of two artists, the local
\* artist being one of them and the raw similarity lying below 0.9
BoostsOnlyRaiseWitness ==
    /\ idx > 0
    /\ threshold = Frac(8, 10)
    /\ ~IsNone(match_result)
    /\ \E k \in WithId :
          /\ SameTitle(k)
          /\ OneOfSeveral(k)
          /\ ContainedInSeveral(k)
          /\ LocalArtistClean # << >>
          /\ FLt(ArtistScoreOf(k).raw, Frac(9, 10))
          /\ Get(match_result).spotify_id = spotify_results[k].id
          /\ FLe(Frac(8, 10), Get(match_result).confidence)

\* a call at threshold 0.8 for a local artist who is one of two artists of a
\* result with the same title, and whose name carries a marker span: the
\* normalized name is not contained and nothing is returned
BoostsOnlyRaiseMarkedWitness ==
    /\ idx > 0
    /\ threshold = Frac(8, 10)
    /\ IsNone(match_result)
    /\ \E k \in WithId :
          /\ SameTitle(k)
          /\ OneOfSeveral(k)
          /\ ~ContainedInSeveral(k)

\* the first two statements of C24 for a direct call of _calculate_match_score
\* on any two artists (checked under SpecScore)
BoostsRaiseAnyArtists ==
    (~IsNone(score_value) /\ BothArtistsPresent) =>
        /\ FLe(ratio(Get(score_args).local_artist, CandidateArtist), ArtistScore)
        /\ Contains(Lower(CandidateArtist), Lower(Get(score_args).local_artist))
              => FLe(Frac(9, 10), ArtistScore)

-----------------------------------------------------------------------------
(* C25 - candidates without an identifier are skipped.  In every state of a  *)
(* compare_playlists run: the MatchResult of the latest match_track call     *)
(* carries an identifier, whatever the results without one score; no matched *)
(* pair holds a candidate without an identifier; and in the returned result  *)
(* the candidates without an identifier are all in spotify_only, in their    *)
(* order.  Checked under Spec.                                               *)

\* the positions of the tracks of a list that carry no identifier
NoIdPositions(tracks) == { i \in 1..Len(tracks) : tracks[i].id = "" }

-----------------------------------------------------------------------------
(* C26 - sequential claim order.  Every step of compare_playlists that       *)
(* handles a local track handles the next one in input order; the consumed   *)
(* set never loses an identifier and is, after the step, the set of the      *)
(* identifiers of the matched pairs; and the track is left in local_only, or *)
(* paired with a candidate, according to what match_track returns on the     *)
(* candidates, in their original order, whose identifiers are not among      *)
(* those of the pairs made for the earlier local tracks.  The paired         *)
(* candidate carries the identifier of the MatchResult, and its title and    *)
(* artists too when tracks with one identifier are one track.  Checked on    *)
(* every step under Spec.                                                    *)

\* the candidates not consumed by the pairs made so far, in original order, as
\* match_track takes them
UnconsumedPool ==
    LET free == Pick(spotify_tracks,
                     { i \in 1..Len(spotify_tracks) :
                           spotify_tracks[i].id \notin IdsOf(matched_pairs) }, 1)
    IN  [i \in 1..Len(free) |-> track_result(free[i])]

\* two tracks of the list with the same identifier are the same track
SameIdSameTrack(tracks) ==
    \A i, j \in 1..Len(tracks) : tracks[i].id = tracks[j].id => tracks[i] = tracks[j]

\* the step left the local track unmatched
LeftUnmatched(local_track) ==
    /\ matched_pairs' = matched_pairs
    /\ local_only' = Append(local_only, local_track)

\* the step paired the local track with the candidate the MatchResult names
PairedWith(local_track, found) ==
    /\ local_only' = local_only
    /\ Len(matched_pairs') = Len(matched_pairs) + 1
    /\ SubSeq(matched_pairs', 1, Len(matched_pairs)) = matched_pairs
    /\ matched_pairs'[Len(matched_pairs')][1] = local_track
    /\ matched_pairs'[Len(matched_pairs')][2].id = found.spotify_id
    /\ \E k \in 1..Len(spotify_tracks) :
          spotify_tracks[k] = matched_pairs'[Len(matched_pairs')][2]
    /\ SameIdSameTrack(spotify_tracks) =>
          /\ matched_pairs'[Len(matched_pairs')][2].name = found.matched_title
          /\ joined_artists(matched_pairs'[Len(matched_pairs')][2].artists)
                = found.matched_artist

\* the step handled local_track as match_track on the unconsumed pool decides
HandledInTurn(local_track, found) ==
    IF IsNone(found) THEN LeftUnmatched(local_track)
    ELSE PairedWith(local_track, Get(found))

\* C26: local tracks are handled in input order against the candidates the
\* earlier ones left, and the consumed set grows with the matched pairs
SequentialClaims ==
    [][ /\ matched_spotify_ids \subseteq matched_spotify_ids'
        /\ matched_spotify_ids' = IdsOf(matched_pairs')
        /\ idx' # idx =>
              /\ idx' = idx + 1
              /\ HandledInTurn(local_tracks[idx'],
                               match_track(threshold, local_tracks[idx'].title,
                                           local_tracks[idx'].artist, UnconsumedPool))
        /\ idx' = idx => (matched_pairs' = matched_pairs /\ local_only' = local_only)
      ]_vars

\* the second local track was paired with a candidate that comes after the
\* candidate of the first one, which scores at least as much against it
SequentialClaimsWitness ==
    /\ idx = 2
    /\ Len(matched_pairs) = 2
    /\ UniqueIds(spotify_tracks)
    /\ matched_pairs[1][1] = local_tracks[1]
    /\ matched_pairs[2][1] = local_tracks[2]
    /\ \E j, k \in 1..Len(spotify_tracks) :
          /\ j < k
          /\ spotify_tracks[j] = matched_pairs[1][2]
          /\ spotify_tracks[k] = matched_pairs[2][2]
          /\ FLe(LocalScore(local_tracks[2], spotify_tracks[k]),
                 LocalScore(local_tracks[2], spotify_tracks[j]))
    /\ matched_spotify_ids = { matched_pairs[1][2].id, matched_pairs[2][2].id }

-----------------------------------------------------------------------------
(* C27 - normalized form.  What _clean_string returns is made of lower-case  *)
(* letters, digits and underscores in words separated by single spaces, with *)
(* no space at either end (so no parenthesis, bracket, punctuation, tab or   *)
(* upper-case letter); None and the empty text give the empty string; and    *)
(* _clean_string of the returned string is that string.  Checked under       *)
(* SpecClean.                                                                *)

\* s is words of lower-case letters, digits and underscores, one space
\* between two words
InNormalForm(s) ==
    \A i \in 1..Len(s) :
        /\ s[i] \in LowerLetters \cup Digits \cup {"_", " "}
        /\ s[i] = " " => (1 < i /\ i < Len(s) /\ s[i + 1] # " ")

NormalizedFormEmptyWitness ==
    /\ pc = "cleaned"
    /\ IsNone(clean_text) \/ Get(clean_text) = << >>
    /\ Get(clean_value) = << >>

-----------------------------------------------------------------------------
(* C28 - maximal matching.  As claimed: in the result of a run over          *)
(* candidates that all carry an identifier, no two the same, no track of     *)
(* local_only and candidate of spotify_only score at least the threshold     *)
(* against each other.  Checked under Spec.                                  *)

\* some track of local_only and some candidate of spotify_only score at least
\* the threshold, and more than floor, against each other
LeftoverPair(floor) ==
    \E i \in 1..Len(Returned.local_only), k \in 1..Len(Returned.spotify_only) :
        /\ FLe(threshold, LocalScore(Returned.local_only[i], Returned.spotify_only[k]))
        /\ FLt(floor, LocalScore(Returned.local_only[i], Returned.spotify_only[k]))

\* C28 as claimed: no unmatched local track and unmatched candidate reach the
\* threshold together
MaximalMatching ==
    (Done /\ WellFormedIds(spotify_tracks)) => ~LeftoverPair(Frac(-1, 1))

\* what holds instead: no unmatched local track and unmatched candidate reach
\* the threshold with a score above 0
MaximalMatchingAboveZero ==
    (Done /\ WellFormedIds(spotify_tracks)) => ~LeftoverPair(Frac(0, 1))

-----------------------------------------------------------------------------
(* C29 - candidate partition.  As claimed: in the returned result of a run   *)
(* over any candidate list, lists in which an identifier occurs more than    *)
(* once included, every candidate is the right element of a matched pair or  *)
(* an element of spotify_only and not both, so that len(matched) +           *)
(* len(spotify_only) = total_spotify = len(spotify_tracks).  Checked under   *)
(* Spec.                                                                     *)

\* how many elements of the sequence s equal x
CountOf(s, x) == Cardinality({ i \in 1..Len(s) : s[i] = x })

\* the candidates of the matched pairs
Rights(pairs) == [i \in 1..Len(pairs) |-> pairs[i][2]]

\* every candidate record occurs in matched and spotify_only together as
\* often as in spotify_tracks, and the counts add up
PartitionsCandidates ==
    /\ Returned.total_spotify = Len(spotify_tracks)
    /\ Len(Returned.matched) + Len(Returned.spotify_only) = Returned.total_spotify
    /\ \A k \in 1..Len(spotify_tracks) :
          CountOf(Rights(Returned.matched), spotify_tracks[k])
              + CountOf(Returned.spotify_only, spotify_tracks[k])
          = CountOf(spotify_tracks, spotify_tracks[k])

\* C29 as claimed: the candidates are partitioned whatever their identifiers
CandidatePartition == Done => PartitionsCandidates

\* what holds instead: the candidates are partitioned when no identifier of a
\* matched pair occurs twice in spotify_tracks
CandidatePartitionUnrepeated ==
    (Done /\ \A i, j \in 1..Len(spotify_tracks) :
                (spotify_tracks[i].id = spotify_tracks[j].id
                    /\ spotify_tracks[i].id \in IdsOf(Returned.matched)) => i = j)
        => PartitionsCandidates

-----------------------------------------------------------------------------
(* C30 - percentage bounds.  The match_percentage of every returned result   *)
(* lies in [0, 100], and it is 100 exactly when local_tracks is not empty    *)
(* and local_only and spotify_only are both empty, which for a non-empty     *)
(* local list is the condition cli.py:379 reports as a perfect match.        *)
(* Checked under Spec.                                                       *)

\* cli.py:379, for a local list that is not empty
PerfectMatchReported ==
    /\ local_tracks # << >>
    /\ Returned.local_only = << >>
    /\ Returned.spotify_only = << >>

\* C30: match_percentage is in [0, 100], and 100 exactly on a perfect match
PercentageBounds ==
    Done =>
        /\ FLe(Frac(0, 1), Returned.match_percentage)
        /\ FLe(Returned.match_percentage, Frac(100, 1))
        /\ FEq(Returned.match_percentage, Frac(100, 1)) <=> PerfectMatchReported

\* a run of two local tracks that returned 100
PercentageBoundsWitness ==
    /\ Done
    /\ Len(local_tracks) = 2
    /\ Len(spotify_tracks) = 2
    /\ PerfectMatchReported
    /\ FEq(Returned.match_percentage, Frac(100, 1))

\* a run that matched every local track and left a candidate over: less than
\* 100, more than 0
PercentageBoundsPartialWitness ==
    /\ Done
    /\ local_tracks # << >>
    /\ Returned.local_only = << >>
    /\ Returned.spotify_only # << >>
    /\ FLt(Frac(0, 1), Returned.match_percentage)
    /\ FLt(Returned.match_percentage, Frac(100, 1))

====
